---- MODULE Spec2Model ----
(***************************************************************************)
(* Model of estimate.c: one-shot learning by ordinary least squares.       *)
(*                                                                         *)
(* The program's matrices are heap buffers of C doubles.  The arithmetic   *)
(* on doubles is modelled twice, selected by the variable arith:           *)
(*   "real"  every operation is exact over the rationals extended with     *)
(*           signed zeros, signed infinities and NaN (the IEEE 754 rules   *)
(*           for the special values, no rounding of finite results);       *)
(*   "ieee"  binary64: every operation is the exact result rounded to      *)
(*           MantBits significant bits, round to nearest, ties to even     *)
(*           (FLT_EVAL_METHOD 0, no contraction, default rounding mode).   *)
(* Subnormal results do not arise for the inputs explored and are not      *)
(* modelled; overflow gives an infinity.                                   *)
(***************************************************************************)
EXTENDS Integers, Sequences, FiniteSets, TLC

VARIABLES arith, pc, heap, ptr, loc, out, exit_status, calls, heap0

vars == <<arith, pc, heap, ptr, loc, out, exit_status, calls, heap0>>

(***************************************************************************)
(* Natural numbers of any size, for the 53-bit significands: little-endian *)
(* sequences of limbs below LimbBase, without leading zero limbs.          *)
(***************************************************************************)
LimbBits == 15
LimbBase == 2 ^ LimbBits

MantBits == 53
MaxExp == 1023

Max(a, b) == IF a >= b THEN a ELSE b
Min(a, b) == IF a <= b THEN a ELSE b
Abs(i) == IF i < 0 THEN -i ELSE i

\* TRUE, with x evaluated.  TLC evaluates the argument of an operator when it is
\* first used; a loop written as a recursion tests this on entry, so that every
\* iteration starts from the evaluated result of the one before.
Evaluated(x) == x = x

RECURSIVE BStrip(_)
BStrip(a) ==
  IF a = <<>> THEN a
  ELSE IF a[Len(a)] = 0 THEN BStrip(SubSeq(a, 1, Len(a) - 1)) ELSE a

BLimb(a, i) == IF i <= Len(a) THEN a[i] ELSE 0

RECURSIVE BFromInt(_)
BFromInt(i) == IF i = 0 THEN <<>> ELSE <<i % LimbBase>> \o BFromInt(i \div LimbBase)

\* the limbs of a + b from limb i on, s the sum of limb i and the carry into it
RECURSIVE BAddFrom(_, _, _, _)
BAddFrom(a, b, i, s) ==
  IF i > Max(Len(a), Len(b))
  THEN IF s = 0 THEN <<>> ELSE <<s>>
  ELSE <<s % LimbBase>> \o BAddFrom(a, b, i + 1, BLimb(a, i + 1) + BLimb(b, i + 1) + s \div LimbBase)

BAdd(a, b) == BAddFrom(a, b, 1, BLimb(a, 1) + BLimb(b, 1))

\* the limbs of a - b (a >= b) from limb i on, s the difference at limb i less
\* the borrow
RECURSIVE BSubFrom(_, _, _, _)
BSubFrom(a, b, i, s) ==
  IF i > Len(a) THEN <<>>
  ELSE <<(s + LimbBase) % LimbBase>> \o
       BSubFrom(a, b, i + 1, BLimb(a, i + 1) - BLimb(b, i + 1) - (IF s < 0 THEN 1 ELSE 0))

BSub(a, b) == BStrip(BSubFrom(a, b, 1, BLimb(a, 1) - BLimb(b, 1)))

RECURSIVE BCmpFrom(_, _, _)
BCmpFrom(a, b, i) ==
  IF i = 0 THEN 0
  ELSE IF a[i] > b[i] THEN 1
  ELSE IF a[i] < b[i] THEN -1
  ELSE BCmpFrom(a, b, i - 1)

\* -1, 0, 1 as a < b, a = b, a > b
BCmp(a, b) ==
  IF Len(a) > Len(b) THEN 1
  ELSE IF Len(a) < Len(b) THEN -1
  ELSE BCmpFrom(a, b, Len(a))

\* the limbs of a * x from limb i on, for a limb-sized x, s the product at limb i
\* plus the carry into it
RECURSIVE BMulSmallFrom(_, _, _, _)
BMulSmallFrom(a, x, i, s) ==
  IF i > Len(a)
  THEN IF s = 0 THEN <<>> ELSE <<s>>
  ELSE <<s % LimbBase>> \o BMulSmallFrom(a, x, i + 1, BLimb(a, i + 1) * x + s \div LimbBase)

BMulSmall(a, x) == IF x = 0 THEN <<>> ELSE BMulSmallFrom(a, x, 1, BLimb(a, 1) * x)

Zeros(n) == [i \in 1..n |-> 0]

\* acc + a[i..] * b * LimbBase^(i-1)
RECURSIVE BMulFrom(_, _, _, _)
BMulFrom(a, b, i, acc) ==
  IF Evaluated(acc) /\ i > Len(a) THEN acc
  ELSE BMulFrom(a, b, i + 1, BAdd(acc, Zeros(i - 1) \o BMulSmall(b, a[i])))

BMul(a, b) == BStrip(BMulFrom(a, b, 1, <<>>))

\* floor(a / x) for a limb-sized x > 0, from the top limb i down, t the limb i
\* with the remainder above it
RECURSIVE BDivSmallFrom(_, _, _, _)
BDivSmallFrom(a, x, i, t) ==
  IF i = 0 THEN <<>>
  ELSE BDivSmallFrom(a, x, i - 1, (t % x) * LimbBase + BLimb(a, Max(i - 1, 1))) \o <<t \div x>>

BDivSmall(a, x) == BStrip(BDivSmallFrom(a, x, Len(a), BLimb(a, Max(Len(a), 1))))

BShl(a, k) ==
  IF a = <<>> THEN a
  ELSE Zeros(k \div LimbBits) \o BMulSmall(a, 2 ^ (k % LimbBits))

BShr(a, k) ==
  IF k \div LimbBits >= Len(a) THEN <<>>
  ELSE BDivSmall(SubSeq(a, (k \div LimbBits) + 1, Len(a)), 2 ^ (k % LimbBits))

RECURSIVE IntBitLen(_)
IntBitLen(i) == IF i = 0 THEN 0 ELSE 1 + IntBitLen(i \div 2)

BBitLen(a) == IF a = <<>> THEN 0 ELSE (Len(a) - 1) * LimbBits + IntBitLen(a[Len(a)])

\* bit i of a, bit 0 the least significant
BBit(a, i) == (BLimb(a, (i \div LimbBits) + 1) \div (2 ^ (i % LimbBits))) % 2

BIsOdd(a) == BBit(a, 0) = 1

\* the value of a of at most two limbs
BToInt(a) == BLimb(a, 1) + LimbBase * BLimb(a, 2)

\* the largest q in lo..hi with q * d <= r
RECURSIVE BQuotLimb(_, _, _, _)
BQuotLimb(r, d, lo, hi) ==
  IF lo >= hi THEN lo
  ELSE IF BCmp(BMulSmall(d, (lo + hi + 1) \div 2), r) <= 0
  THEN BQuotLimb(r, d, (lo + hi + 1) \div 2, hi)
  ELSE BQuotLimb(r, d, lo, ((lo + hi + 1) \div 2) - 1)

\* the bits of r and d above this one bound the quotient of r by d, for d of
\* MantBits bits and r < d * LimbBase
QuotShift == MantBits - LimbBits

\* <<q, r - q * d>>
BDivStepBy(r, d, q) == <<q, BSub(r, BMulSmall(d, q))>>

\* BDivStep(r, d), for a and b the leading bits of r and d
BDivStepAt(r, d, a, b) ==
  BDivStepBy(r, d, BQuotLimb(r, d, a \div (b + 1), Min((a + 1) \div b, LimbBase - 1)))

\* <<floor(r / d), r mod d>> for d of MantBits bits and r < d * LimbBase
BDivStep(r, d) == BDivStepAt(r, d, BToInt(BShr(r, QuotShift)), BToInt(BShr(d, QuotShift)))

\* the number of limbs of quotient MantDiv computes after the leading bit
QuotLimbs == 4

\* MantDiv with i limbs of quotient still to compute: st is the last step's
\* <<quotient limb, remainder>> and q holds the quotient limbs before it
RECURSIVE MantDivFrom(_, _, _, _)
MantDivFrom(st, d, q, i) ==
  IF Evaluated(st) /\ i = 0
  THEN <<BStrip(<<st[1]>> \o q), st[2] # <<>> >>
  ELSE MantDivFrom(BDivStep(BShl(st[2], LimbBits), d), d, <<st[1]>> \o q, i - 1)

\* <<q, rest>> for m and d of MantBits bits: q = floor(m * LimbBase^QuotLimbs / d)
\* and rest tells whether the division left a remainder
MantDiv(m, d) ==
  MantDivFrom(IF BCmp(m, d) >= 0 THEN <<1, BSub(m, d)>> ELSE <<0, m>>, d, <<>>, QuotLimbs)

(***************************************************************************)
(* A double is <<"nan">>, <<"inf", s>>, <<"zero", s>> or <<"fin", s, g>>   *)
(* with sign bit s (1 negative) and magnitude g > 0:                       *)
(*   arith = "real":  g = <<n, d>>, the fraction n/d in lowest terms;      *)
(*   arith = "ieee":  g = <<m, e>>, m * 2^e with 2^52 <= m < 2^53.         *)
(***************************************************************************)
NaN == <<"nan">>
Inf(s) == <<"inf", s>>
Zero(s) == <<"zero", s>>
Fin(s, g) == <<"fin", s, g>>

IsNaN(x) == x[1] = "nan"
IsInf(x) == x[1] = "inf"
IsZero(x) == x[1] = "zero"
IsFinite(x) == x[1] \in {"zero", "fin"}
Xor(s, t) == IF s = t THEN 0 ELSE 1

RECURSIVE GCD(_, _)
GCD(a, b) == IF b = 0 THEN a ELSE GCD(b, a % b)

FracBy(n, d, g) == <<n \div g, d \div g>>

\* the fraction n/d, n > 0, d > 0, in lowest terms
Frac(n, d) == FracBy(n, d, GCD(n, d))

\* the double of sign s and magnitude q * 2^e for q of MantBits bits, an infinity
\* when the exponent is too large
Ranged(s, q, e) == IF e + MantBits - 1 > MaxExp THEN Inf(s) ELSE Fin(s, <<q, e>>)

\* the same for q of MantBits or, after a carry out of the rounding, MantBits + 1 bits
Normalized(s, q, e) ==
  IF BBitLen(q) > MantBits THEN Ranged(s, BShr(q, 1), e + 1) ELSE Ranged(s, q, e)

\* the first MantBits bits q of a significand are rounded up: c compares the bits
\* dropped with half a unit of q, rest tells of more bits below them
RoundsUp(c, rest, q) == c > 0 \/ (c = 0 /\ (rest \/ BIsOdd(q)))

\* RoundMag for m of MantBits + sh bits, q its first MantBits bits
RoundQuot(s, m, e, rest, sh, q) ==
  Normalized(s,
             IF RoundsUp(BCmp(BSub(m, BShl(q, sh)), BShl(<<1>>, sh - 1)), rest, q)
             THEN BAdd(q, <<1>>) ELSE q,
             e + sh)

\* RoundMag for m of len bits
RoundLen(s, m, e, rest, len) ==
  IF len <= MantBits
  THEN Ranged(s, BShl(m, MantBits - len), e - (MantBits - len))
  ELSE RoundQuot(s, m, e, rest, len - MantBits, BShr(m, len - MantBits))

\* The double nearest to (m + t) * 2^e, for a natural m > 0 of at least MantBits + 2
\* bits when rest (0 < t < 1 is left out of m) is TRUE, and t = 0 otherwise.
RoundMag(s, m, e, rest) == RoundLen(s, m, e, rest, BBitLen(m))

\* magnitudes: product, quotient, sum, difference (g > h), order
MagMul(s, g, h) ==
  IF arith = "real"
  THEN Fin(s, Frac(g[1] * h[1], g[2] * h[2]))
  ELSE RoundMag(s, BMul(g[1], h[1]), g[2] + h[2], FALSE)

\* the quotient qr = <<q, rest>> of two significands rounded
MagDivRound(s, qr, e) == RoundMag(s, qr[1], e, qr[2])

MagDiv(s, g, h) ==
  IF arith = "real"
  THEN Fin(s, Frac(g[1] * h[2], g[2] * h[1]))
  ELSE MagDivRound(s, MantDiv(g[1], h[1]), g[2] - h[2] - QuotLimbs * LimbBits)

\* the exponents of two magnitudes this far apart leave the larger unchanged
FarApart == MantBits + 3

MagAdd(s, g, h) ==
  IF arith = "real"
  THEN Fin(s, Frac(g[1] * h[2] + h[1] * g[2], g[2] * h[2]))
  ELSE IF g[2] - h[2] > FarApart THEN Fin(s, g)
  ELSE IF h[2] - g[2] > FarApart THEN Fin(s, h)
  ELSE IF g[2] >= h[2]
  THEN RoundMag(s, BAdd(BShl(g[1], g[2] - h[2]), h[1]), h[2], FALSE)
  ELSE RoundMag(s, BAdd(g[1], BShl(h[1], h[2] - g[2])), g[2], FALSE)

MagCmp(g, h) ==
  IF arith = "real"
  THEN IF g[1] * h[2] > h[1] * g[2] THEN 1
       ELSE IF g[1] * h[2] < h[1] * g[2] THEN -1 ELSE 0
  ELSE IF g[2] > h[2] THEN 1
  ELSE IF g[2] < h[2] THEN -1
  ELSE BCmp(g[1], h[1])

MagSub(s, g, h) ==
  IF arith = "real"
  THEN Fin(s, Frac(g[1] * h[2] - h[1] * g[2], g[2] * h[2]))
  ELSE IF g[2] - h[2] > FarApart THEN Fin(s, g)
  ELSE RoundMag(s, BSub(BShl(g[1], g[2] - h[2]), h[1]), h[2], FALSE)

\* conversion of an int to double
FromInt(i) ==
  IF i = 0 THEN Zero(0)
  ELSE IF arith = "real"
  THEN Fin(IF i < 0 THEN 1 ELSE 0, <<Abs(i), 1>>)
  ELSE RoundMag(IF i < 0 THEN 1 ELSE 0, BFromInt(Abs(i)), 0, FALSE)

DNeg(x) == IF IsNaN(x) THEN x ELSE [x EXCEPT ![2] = 1 - x[2]]

\* x * y
DMul(x, y) ==
  IF IsNaN(x) \/ IsNaN(y) THEN NaN
  ELSE LET s == Xor(x[2], y[2]) IN
       IF IsInf(x) \/ IsInf(y)
       THEN IF IsZero(x) \/ IsZero(y) THEN NaN ELSE Inf(s)
       ELSE IF IsZero(x) \/ IsZero(y) THEN Zero(s)
       ELSE MagMul(s, x[3], y[3])

\* x / y
DDiv(x, y) ==
  IF IsNaN(x) \/ IsNaN(y) THEN NaN
  ELSE LET s == Xor(x[2], y[2]) IN
       IF IsInf(x) THEN IF IsInf(y) THEN NaN ELSE Inf(s)
       ELSE IF IsInf(y) THEN Zero(s)
       ELSE IF IsZero(y) THEN IF IsZero(x) THEN NaN ELSE Inf(s)
       ELSE IF IsZero(x) THEN Zero(s)
       ELSE MagDiv(s, x[3], y[3])

\* x + y
DAdd(x, y) ==
  IF IsNaN(x) \/ IsNaN(y) THEN NaN
  ELSE IF IsInf(x) THEN IF IsInf(y) /\ x[2] # y[2] THEN NaN ELSE x
  ELSE IF IsInf(y) THEN y
  ELSE IF IsZero(x) THEN IF IsZero(y) THEN Zero(IF x[2] = 1 /\ y[2] = 1 THEN 1 ELSE 0) ELSE y
  ELSE IF IsZero(y) THEN x
  ELSE IF x[2] = y[2] THEN MagAdd(x[2], x[3], y[3])
  ELSE LET c == MagCmp(x[3], y[3])
       IN  IF c = 0 THEN Zero(0)
           ELSE IF c > 0 THEN MagSub(x[2], x[3], y[3])
           ELSE MagSub(y[2], y[3], x[3])

\* x - y
DSub(x, y) == DAdd(x, DNeg(y))

(***************************************************************************)
(* printf("%.0f", x): the decimal integer nearest to x, ties to even, with *)
(* the sign of x; "inf" and "nan" for the values that are not finite.  A   *)
(* line of output is <<"num", s, k>> with k the printed integer (a natural *)
(* under "real", a limb sequence under "ieee"), <<"inf", s>> or <<"nan">>. *)
(***************************************************************************)
\* conversion that drops the fraction
RoundDown(n, d) == n \div d

RoundHalfEven(n, d) ==
  LET q == n \div d
      r == n % d
  IN  IF 2 * r > d THEN q + 1
      ELSE IF 2 * r < d THEN q
      ELSE IF q % 2 = 1 THEN q + 1 ELSE q

BRoundHalfEven(m, e) ==
  IF e >= 0 THEN BShl(m, e)
  ELSE IF -e > MantBits + 1 THEN <<>>
  ELSE LET q    == BShr(m, -e)
           low  == BSub(m, BShl(q, -e))
           c    == BCmp(low, BShl(<<1>>, (-e) - 1))
       IN  IF c > 0 \/ (c = 0 /\ BIsOdd(q)) THEN BAdd(q, <<1>>) ELSE q

Format0f(x) ==
  IF IsNaN(x) THEN <<"nan">>
  ELSE IF IsInf(x) THEN <<"inf", x[2]>>
  ELSE IF IsZero(x) THEN <<"num", x[2], IF arith = "real" THEN 0 ELSE <<>> >>
  ELSE IF arith = "real" THEN <<"num", x[2], RoundHalfEven(x[3][1], x[3][2])>>
  ELSE <<"num", x[2], BRoundHalfEven(x[3][1], x[3][2])>>

(***************************************************************************)
(* The heap is the sequence of the buffers allocated so far; a pointer is  *)
(* an index into it (0 before it is assigned).  A buffer of rows x cols    *)
(* doubles is a function on 0..rows-1 of functions on 0..cols-1, as in     *)
(* double ** m; m[i][j].  malloc leaves every cell of the new buffer with  *)
(* an indeterminate value g.                                               *)
(***************************************************************************)
Buffer(rows, cols, g) == [i \in 0..(rows - 1) |-> [j \in 0..(cols - 1) |-> g]]

malloc(h, rows, cols, g) == Append(h, Buffer(rows, cols, g))

\* a loop over j that stops one row early
RECURSIVE transposeRowShort(_, _, _, _, _, _)
transposeRowShort(h, matrix, dst, i, j0, rows) ==
  IF Evaluated(h) /\ j0 >= rows - 1 THEN h
  ELSE transposeRowShort([h EXCEPT ![dst][i][j0] = h[matrix][j0][i]], matrix, dst, i, j0 + 1, rows)

\* transpose, the inner loop over j from j0: transpose[i][j] = matrix[j][i]
RECURSIVE transposeRow(_, _, _, _, _, _)
transposeRow(h, matrix, dst, i, j0, rows) ==
  IF Evaluated(h) /\ j0 >= rows THEN h
  ELSE transposeRow([h EXCEPT ![dst][i][j0] = h[matrix][j0][i]], matrix, dst, i, j0 + 1, rows)

\* transpose, the outer loop over i from i0
RECURSIVE transposeFrom(_, _, _, _, _, _)
transposeFrom(h, matrix, dst, i0, rows, cols) ==
  IF Evaluated(h) /\ i0 >= cols THEN h
  ELSE transposeFrom(transposeRow(h, matrix, dst, i0, 0, rows), matrix, dst, i0 + 1, rows, cols)

\* transpose(matrix, transpose, rows, cols): the heap it leaves
transpose(h, matrix, dst, rows, cols) == transposeFrom(h, matrix, dst, 0, rows, cols)

\* a loop over k that assigns (=) where multiply accumulates (+=)
RECURSIVE multiplyCellAssign(_, _, _, _, _, _, _, _)
multiplyCellAssign(h, matrix1, matrix2, result, i, j, k0, cols1) ==
  IF Evaluated(h) /\ k0 >= cols1 THEN h
  ELSE multiplyCellAssign([h EXCEPT ![result][i][j] = DMul(h[matrix1][i][k0], h[matrix2][k0][j])],
                          matrix1, matrix2, result, i, j, k0 + 1, cols1)

\* multiply, the loop over k from k0: result[i][j] += matrix1[i][k] * matrix2[k][j]
RECURSIVE multiplyCell(_, _, _, _, _, _, _, _)
multiplyCell(h, matrix1, matrix2, result, i, j, k0, cols1) ==
  IF Evaluated(h) /\ k0 >= cols1 THEN h
  ELSE multiplyCell([h EXCEPT ![result][i][j] =
                       DAdd(h[result][i][j], DMul(h[matrix1][i][k0], h[matrix2][k0][j]))],
                    matrix1, matrix2, result, i, j, k0 + 1, cols1)

\* multiply, the loop over j from j0
RECURSIVE multiplyRow(_, _, _, _, _, _, _, _)
multiplyRow(h, matrix1, matrix2, result, i, j0, cols, cols1) ==
  IF Evaluated(h) /\ j0 >= cols THEN h
  ELSE multiplyRow(multiplyCell(h, matrix1, matrix2, result, i, j0, 0, cols1),
                   matrix1, matrix2, result, i, j0 + 1, cols, cols1)

\* multiply, the loop over i from i0
RECURSIVE multiplyFrom(_, _, _, _, _, _, _, _)
multiplyFrom(h, matrix1, matrix2, result, i0, rows, cols, cols1) ==
  IF Evaluated(h) /\ i0 >= rows THEN h
  ELSE multiplyFrom(multiplyRow(h, matrix1, matrix2, result, i0, 0, cols, cols1),
                    matrix1, matrix2, result, i0 + 1, rows, cols, cols1)

\* multiply(matrix1, matrix2, result, rows, cols, cols1): the heap it leaves
multiply(h, matrix1, matrix2, result, rows, cols, cols1) ==
  multiplyFrom(h, matrix1, matrix2, result, 0, rows, cols, cols1)

\* an insertZeroes that stores nothing
insertZeroesNone(h, matrix, rows, cols) == h

\* insertZeroes(matrix, rows, cols): the heap it leaves
insertZeroes(h, matrix, rows, cols) ==
  [h EXCEPT ![matrix] = [i \in 0..(rows - 1) |-> [j \in 0..(cols - 1) |-> FromInt(0)]]]

\* inverse, lines 32-45: the heap with identity_matrix allocated and filled.  The
\* buffer has rows x rows cells and the loops fill rows x cols of them; every
\* call passes cols = rows, so no cell keeps its indeterminate value.
inverseIdentity(h, rows, cols) ==
  Append(h, [i \in 0..(rows - 1) |->
               [j \in 0..(cols - 1) |-> IF i = j THEN FromInt(1) ELSE FromInt(0)]])

\* a scaling of row p that leaves identity_matrix alone
RECURSIVE inverseScaleMatrixOnly(_, _, _, _, _, _, _)
inverseScaleMatrixOnly(h, matrix, id, p, f, ct0, rows) ==
  IF Evaluated(h) /\ Evaluated(f) /\ ct0 >= rows THEN h
  ELSE inverseScaleMatrixOnly([h EXCEPT ![matrix][p][ct0] = DDiv(h[matrix][p][ct0], f)],
                              matrix, id, p, f, ct0 + 1, rows)

\* inverse, lines 53-56: row p of both matrices divided by f, from column ct0
RECURSIVE inverseScale(_, _, _, _, _, _, _)
inverseScale(h, matrix, id, p, f, ct0, rows) ==
  IF Evaluated(h) /\ Evaluated(f) /\ ct0 >= rows THEN h
  ELSE inverseScale([h EXCEPT ![matrix][p][ct0] = DDiv(h[matrix][p][ct0], f),
                              ![id][p][ct0] = DDiv(h[id][p][ct0], f)],
                    matrix, id, p, f, ct0 + 1, rows)

\* inverse, lines 59-62 and 69-72: f times row p subtracted from row i, from column ct0
RECURSIVE inverseReduce(_, _, _, _, _, _, _, _)
inverseReduce(h, matrix, id, p, i, f, ct0, rows) ==
  IF Evaluated(h) /\ Evaluated(f) /\ ct0 >= rows THEN h
  ELSE inverseReduce([h EXCEPT
                        ![matrix][i][ct0] = DSub(h[matrix][i][ct0], DMul(f, h[matrix][p][ct0])),
                        ![id][i][ct0] = DSub(h[id][i][ct0], DMul(f, h[id][p][ct0]))],
                     matrix, id, p, i, f, ct0 + 1, rows)

\* inverse, lines 57-63: the rows i0..rows-1 below the pivot row, f = matrix[i][p]
RECURSIVE inverseBelow(_, _, _, _, _, _)
inverseBelow(h, matrix, id, p, i0, rows) ==
  IF Evaluated(h) /\ i0 >= rows THEN h
  ELSE inverseBelow(inverseReduce(h, matrix, id, p, i0, h[matrix][i0][p], 0, rows),
                    matrix, id, p, i0 + 1, rows)

\* inverse, lines 52-63: one iteration of the forward loop, pivot row p, f = matrix[p][p]
inverseForwardStep(h, matrix, id, p, rows) ==
  inverseBelow(inverseScale(h, matrix, id, p, h[matrix][p][p], 0, rows), matrix, id, p, p + 1, rows)

\* inverse, lines 51-64: the forward loop from p0
RECURSIVE inverseForward(_, _, _, _, _)
inverseForward(h, matrix, id, p0, rows) ==
  IF Evaluated(h) /\ p0 >= rows THEN h
  ELSE inverseForward(inverseForwardStep(h, matrix, id, p0, rows), matrix, id, p0 + 1, rows)

\* inverse, lines 67-73: the rows i0, i0-1, .., 0 above the pivot row, f = matrix[i][p]
RECURSIVE inverseAbove(_, _, _, _, _, _)
inverseAbove(h, matrix, id, p, i0, rows) ==
  IF Evaluated(h) /\ i0 < 0 THEN h
  ELSE inverseAbove(inverseReduce(h, matrix, id, p, i0, h[matrix][i0][p], 0, rows),
                    matrix, id, p, i0 - 1, rows)

\* a backward loop that eliminates nothing
inverseBackwardStepNone(h, matrix, id, p, rows) == h

\* inverse, lines 67-73: one iteration of the backward loop, pivot row p
inverseBackwardStep(h, matrix, id, p, rows) == inverseAbove(h, matrix, id, p, p - 1, rows)

\* inverse, lines 66-74: the backward loop from p0 down
RECURSIVE inverseBackward(_, _, _, _, _)
inverseBackward(h, matrix, id, p0, rows) ==
  IF Evaluated(h) /\ p0 < 0 THEN h
  ELSE inverseBackward(inverseBackwardStep(h, matrix, id, p0, rows), matrix, id, p0 - 1, rows)

\* inverse, lines 51-76: the two loops, identity_matrix being buffer id of h
inverseLoops(h, matrix, id, rows) ==
  inverseBackward(inverseForward(h, matrix, id, 0, rows), matrix, id, rows - 1, rows)

\* inverse(matrix, rows, cols): the heap it leaves; it returns the last buffer
inverse(h, matrix, rows, cols) ==
  inverseLoops(inverseIdentity(h, rows, cols), matrix, Len(h) + 1, rows)

\* printPriceMatrix(matrix, rows, cols): the lines it prints.  A line holds the
\* cols numbers of a row without a separator; every call passes cols = 1.
printPriceMatrix(h, matrix, rows, cols) ==
  [i \in 1..rows |-> [j \in 1..cols |-> Format0f(h[matrix][i - 1][j - 1])]]

(***************************************************************************)
(* main.  pc names the line of main the program is about to execute; loc   *)
(* holds main's int variables and ptr its double ** variables; out is the  *)
(* standard output, a sequence of lines; calls is the history of the calls *)
(* of transpose, multiply and inverse, each with the buffer it wrote.      *)
(* The two input files are well formed: they hold the numbers their        *)
(* headers declare, here integers drawn from small sets as they are read.  *)
(***************************************************************************)
MaxAttr == 1
MaxHouses == 2
MaxQueryRows == 2

TrainValues == {1, 2}
TargetValues == {-1, 0, 3, 5}
QueryValues == {0, 4}

\* the inputs of the binary64 runs
IeeeAttr == 2
IeeeHouses == 3
IeeeValues == {0, 1}

\* values a cell may hold after malloc
Garbage == {FromInt(0), FromInt(1)}

NoPtr ==
  [matrix_x |-> 0, vector_y |-> 0, vector_w |-> 0, transpose_x |-> 0, product_x |-> 0,
   inverse_x |-> 0, result_x |-> 0, estimator_x |-> 0, estimator_y |-> 0]

NoLoc ==
  [num_of_attributes |-> 0, num_of_houses |-> 0, num_of_attributes_2 |-> 0, num_of_houses_2 |-> 0]

Running == "running"

InitMain(a) ==
  /\ arith = a
  /\ pc = "L124"
  /\ heap = <<>>
  /\ ptr = NoPtr
  /\ loc = NoLoc
  /\ out = <<>>
  /\ exit_status = Running
  /\ calls = <<>>
  /\ heap0 = <<>>

n1 == loc.num_of_attributes + 1

\* lines 124-132: the header of the training file
ReadTrainHeader(attrs, houses) ==
  /\ pc = "L124"
  /\ \E a \in attrs, n \in houses :
       loc' = [loc EXCEPT !.num_of_attributes = a, !.num_of_houses = n]
  /\ pc' = "L135"
  /\ UNCHANGED <<arith, heap, ptr, out, exit_status, calls, heap0>>

\* lines 135-146: matrix_x, vector_y, vector_w allocated
AllocTrain ==
  /\ pc = "L135"
  /\ \E g1 \in Garbage, g2 \in Garbage, g3 \in Garbage :
       heap' = malloc(malloc(malloc(heap, loc.num_of_houses, n1, g1),
                             loc.num_of_houses, 1, g2), n1, 1, g3)
  /\ ptr' = [ptr EXCEPT !.matrix_x = Len(heap) + 1, !.vector_y = Len(heap) + 2,
                        !.vector_w = Len(heap) + 3]
  /\ pc' = "L148"
  /\ UNCHANGED <<arith, loc, out, exit_status, calls, heap0>>

\* lines 148-150
ZeroTrain ==
  /\ pc = "L148"
  /\ heap' = insertZeroes(insertZeroes(insertZeroes(heap, ptr.matrix_x, loc.num_of_houses, n1),
                                       ptr.vector_y, loc.num_of_houses, 1),
                          ptr.vector_w, n1, 1)
  /\ pc' = "L158"
  /\ UNCHANGED <<arith, ptr, loc, out, exit_status, calls, heap0>>

\* lines 158-164: the rows of the training file, a column of 1s put before them
ReadTrainRows(xvalues, yvalues) ==
  /\ pc = "L158"
  /\ \E xs \in [(0..(loc.num_of_houses - 1)) \X (1..loc.num_of_attributes) -> xvalues],
        ys \in [0..(loc.num_of_houses - 1) -> yvalues] :
       heap' = [heap EXCEPT
                  ![ptr.matrix_x] = [i \in 0..(loc.num_of_houses - 1) |->
                                       [j \in 0..loc.num_of_attributes |->
                                          IF j = 0 THEN FromInt(1) ELSE FromInt(xs[<<i, j>>])]],
                  ![ptr.vector_y] = [i \in 0..(loc.num_of_houses - 1) |->
                                       [j \in 0..0 |-> FromInt(ys[i])]]]
  /\ pc' = "L166"
  /\ UNCHANGED <<arith, ptr, loc, out, exit_status, calls, heap0>>

\* lines 166-170
AllocTranspose ==
  /\ pc = "L166"
  /\ \E g \in Garbage : heap' = malloc(heap, n1, loc.num_of_houses, g)
  /\ ptr' = [ptr EXCEPT !.transpose_x = Len(heap) + 1]
  /\ pc' = "L172"
  /\ UNCHANGED <<arith, loc, out, exit_status, calls, heap0>>

\* line 172
ZeroTranspose ==
  /\ pc = "L172"
  /\ heap' = insertZeroes(heap, ptr.transpose_x, n1, loc.num_of_houses)
  /\ pc' = "L174"
  /\ UNCHANGED <<arith, ptr, loc, out, exit_status, calls, heap0>>

\* line 174
CallTranspose ==
  /\ pc = "L174"
  /\ heap' = transpose(heap, ptr.matrix_x, ptr.transpose_x, loc.num_of_houses, n1)
  /\ calls' = Append(calls, <<"transpose", ptr.transpose_x>>)
  /\ pc' = "L178"
  /\ UNCHANGED <<arith, ptr, loc, out, exit_status, heap0>>

\* lines 178-181
AllocProduct ==
  /\ pc = "L178"
  /\ \E g \in Garbage : heap' = malloc(heap, n1, n1, g)
  /\ ptr' = [ptr EXCEPT !.product_x = Len(heap) + 1]
  /\ pc' = "L183"
  /\ UNCHANGED <<arith, loc, out, exit_status, calls, heap0>>

\* line 183
ZeroProduct ==
  /\ pc = "L183"
  /\ heap' = insertZeroes(heap, ptr.product_x, n1, n1)
  /\ pc' = "L185"
  /\ UNCHANGED <<arith, ptr, loc, out, exit_status, calls, heap0>>

\* line 185
MultiplyProduct ==
  /\ pc = "L185"
  /\ heap' = multiply(heap, ptr.transpose_x, ptr.matrix_x, ptr.product_x, n1, n1, loc.num_of_houses)
  /\ calls' = Append(calls, <<"multiply", ptr.product_x>>)
  /\ pc' = "L190"
  /\ UNCHANGED <<arith, ptr, loc, out, exit_status, heap0>>

\* lines 190-193
AllocInverse ==
  /\ pc = "L190"
  /\ \E g \in Garbage : heap' = malloc(heap, n1, n1, g)
  /\ ptr' = [ptr EXCEPT !.inverse_x = Len(heap) + 1]
  /\ pc' = "L195"
  /\ UNCHANGED <<arith, loc, out, exit_status, calls, heap0>>

\* line 195
ZeroInverse ==
  /\ pc = "L195"
  /\ heap' = insertZeroes(heap, ptr.inverse_x, n1, n1)
  /\ pc' = "L197"
  /\ UNCHANGED <<arith, ptr, loc, out, exit_status, calls, heap0>>

\* line 197: inverse_x now points to the buffer inverse allocated
CallInverse ==
  /\ pc = "L197"
  /\ heap' = inverse(heap, ptr.product_x, n1, n1)
  /\ ptr' = [ptr EXCEPT !.inverse_x = Len(heap) + 1]
  /\ calls' = Append(calls, <<"inverse", Len(heap) + 1>>)
  /\ pc' = "L201"
  /\ UNCHANGED <<arith, loc, out, exit_status, heap0>>

\* lines 201-204
AllocResult ==
  /\ pc = "L201"
  /\ \E g \in Garbage : heap' = malloc(heap, n1, loc.num_of_houses, g)
  /\ ptr' = [ptr EXCEPT !.result_x = Len(heap) + 1]
  /\ pc' = "L206"
  /\ UNCHANGED <<arith, loc, out, exit_status, calls, heap0>>

\* line 206
ZeroResult ==
  /\ pc = "L206"
  /\ heap' = insertZeroes(heap, ptr.result_x, n1, loc.num_of_houses)
  /\ pc' = "L208"
  /\ UNCHANGED <<arith, ptr, loc, out, exit_status, calls, heap0>>

\* line 208
MultiplyResult ==
  /\ pc = "L208"
  /\ heap' = multiply(heap, ptr.inverse_x, ptr.transpose_x, ptr.result_x, n1, loc.num_of_houses, n1)
  /\ calls' = Append(calls, <<"multiply", ptr.result_x>>)
  /\ pc' = "L210"
  /\ UNCHANGED <<arith, ptr, loc, out, exit_status, heap0>>

\* line 210
MultiplyW ==
  /\ pc = "L210"
  /\ heap' = multiply(heap, ptr.result_x, ptr.vector_y, ptr.vector_w, n1, 1, loc.num_of_houses)
  /\ calls' = Append(calls, <<"multiply", ptr.vector_w>>)
  /\ pc' = "L212"
  /\ UNCHANGED <<arith, ptr, loc, out, exit_status, heap0>>

\* lines 212-225: the header of the query file
ReadQueryHeader(attrs, houses) ==
  /\ pc = "L212"
  /\ \E a \in attrs, n \in houses :
       loc' = [loc EXCEPT !.num_of_attributes_2 = a, !.num_of_houses_2 = n]
  /\ pc' = "L227"
  /\ UNCHANGED <<arith, heap, ptr, out, exit_status, calls, heap0>>

\* a mismatch that ends the program without a message
MismatchSilent ==
  /\ pc = "L227"
  /\ loc.num_of_attributes # loc.num_of_attributes_2
  /\ exit_status' = 0
  /\ pc' = "exit"
  /\ UNCHANGED <<arith, heap, ptr, loc, out, calls, heap0>>

\* lines 227-230
Mismatch ==
  /\ pc = "L227"
  /\ loc.num_of_attributes # loc.num_of_attributes_2
  /\ out' = Append(out, "error")
  /\ exit_status' = 0
  /\ pc' = "exit"
  /\ UNCHANGED <<arith, heap, ptr, loc, calls, heap0>>

\* lines 227, 234-240
AllocEstimator ==
  /\ pc = "L227"
  /\ loc.num_of_attributes = loc.num_of_attributes_2
  /\ \E g1 \in Garbage, g2 \in Garbage :
       heap' = malloc(malloc(heap, loc.num_of_houses_2, loc.num_of_attributes_2 + 1, g1),
                      loc.num_of_houses_2, 1, g2)
  /\ ptr' = [ptr EXCEPT !.estimator_x = Len(heap) + 1, !.estimator_y = Len(heap) + 2]
  /\ pc' = "L242"
  /\ UNCHANGED <<arith, loc, out, exit_status, calls, heap0>>

\* lines 242-243
ZeroEstimator ==
  /\ pc = "L242"
  /\ heap' = insertZeroes(insertZeroes(heap, ptr.estimator_x, loc.num_of_houses_2,
                                       loc.num_of_attributes_2 + 1),
                          ptr.estimator_y, loc.num_of_houses_2, 1)
  /\ pc' = "L245"
  /\ UNCHANGED <<arith, ptr, loc, out, exit_status, calls, heap0>>

\* lines 245-250: the rows of the query file, a column of 1s put before them
ReadQueryRows(qvalues) ==
  /\ pc = "L245"
  /\ \E xs \in [(0..(loc.num_of_houses_2 - 1)) \X (1..loc.num_of_attributes_2) -> qvalues] :
       heap' = [heap EXCEPT
                  ![ptr.estimator_x] = [i \in 0..(loc.num_of_houses_2 - 1) |->
                                          [j \in 0..loc.num_of_attributes_2 |->
                                             IF j = 0 THEN FromInt(1) ELSE FromInt(xs[<<i, j>>])]]]
  /\ pc' = "L253"
  /\ UNCHANGED <<arith, ptr, loc, out, exit_status, calls, heap0>>

\* line 253
MultiplyEstimate ==
  /\ pc = "L253"
  /\ heap' = multiply(heap, ptr.estimator_x, ptr.vector_w, ptr.estimator_y,
                      loc.num_of_houses_2, 1, loc.num_of_attributes_2 + 1)
  /\ calls' = Append(calls, <<"multiply", ptr.estimator_y>>)
  /\ pc' = "L255"
  /\ UNCHANGED <<arith, ptr, loc, out, exit_status, heap0>>

\* line 255
PrintPrices ==
  /\ pc = "L255"
  /\ out' = out \o printPriceMatrix(heap, ptr.estimator_y, loc.num_of_houses_2, 1)
  /\ pc' = "L257"
  /\ UNCHANGED <<arith, heap, ptr, loc, exit_status, calls, heap0>>

\* lines 257-259
Return ==
  /\ pc = "L257"
  /\ exit_status' = 0
  /\ pc' = "exit"
  /\ UNCHANGED <<arith, heap, ptr, loc, out, calls, heap0>>

\* the steps of main that read no input
Compute ==
  \/ AllocTrain \/ ZeroTrain
  \/ AllocTranspose \/ ZeroTranspose \/ CallTranspose
  \/ AllocProduct \/ ZeroProduct \/ MultiplyProduct
  \/ AllocInverse \/ ZeroInverse \/ CallInverse
  \/ AllocResult \/ ZeroResult \/ MultiplyResult \/ MultiplyW
  \/ Mismatch \/ AllocEstimator \/ ZeroEstimator
  \/ MultiplyEstimate \/ PrintPrices \/ Return

Init == InitMain("real")

Next ==
  \/ ReadTrainHeader(0..MaxAttr, 0..MaxHouses)
  \/ ReadTrainRows(TrainValues, TargetValues)
  \/ ReadQueryHeader(0..(MaxAttr + 1), 0..MaxQueryRows)
  \/ ReadQueryRows(QueryValues)
  \/ Compute

Spec == Init /\ [][Next]_vars

InitIeee == InitMain("ieee")

NextIeee ==
  \/ ReadTrainHeader({IeeeAttr}, {IeeeHouses})
  \/ ReadTrainRows(IeeeValues, IeeeValues)
  \/ ReadQueryHeader({IeeeAttr, IeeeAttr + 1}, {1})
  \/ ReadQueryRows(IeeeValues)
  \/ Compute

SpecIeee == InitIeee /\ [][NextIeee]_vars

(***************************************************************************)
(* transpose, multiply and inverse on their own.  Each is called on        *)
(* arguments drawn from small sets: pc tells how far the calls have got,   *)
(* loc holds the int arguments, ptr the double ** arguments, and heap0 the *)
(* heap as it was when the function under study was called.  The products *)
(* of the last specification are composed as main composes them, every     *)
(* destination allocated and zeroed before the call that fills it.         *)
(***************************************************************************)
MaxRows == 2
MaxCols == 2
MaxInner == 2
MaxN == 2

TransposeValues == {0, 1, 2}
MultiplyValues == {-1, 2}
InverseValues == {-1, 0, 1, 2}
ComposeValues == {0, 1, 2}

\* the rows x cols buffers holding converted ints of the set values
Matrices(rows, cols, values) ==
  [0..(rows - 1) -> [0..(cols - 1) -> {FromInt(v) : v \in values}]]

\* contents a rows x cols destination may have before a call
Destinations(rows, cols) ==
  {Buffer(rows, cols, g) : g \in Garbage}
    \cup {[i \in 0..(rows - 1) |-> [j \in 0..(cols - 1) |-> FromInt(i - j)]]}

\* rows x cols buffers whose cells run through -1, 0, 1 along rows and columns
Striped(rows, cols) ==
  {[i \in 0..(rows - 1) |-> [j \in 0..(cols - 1) |-> FromInt(((a * i + b * j + t) % 3) - 1)]] :
     a \in 1..2, b \in 1..2, t \in 0..2}

InitKernel(l) ==
  /\ arith = "real"
  /\ pc = l
  /\ heap = <<>>
  /\ ptr = <<>>
  /\ loc = <<>>
  /\ out = <<>>
  /\ exit_status = Running
  /\ calls = <<>>
  /\ heap0 = <<>>

\* a source matrix and a destination of the transposed shape
TransposeArgs ==
  /\ pc = "T0"
  /\ \E rows \in 1..MaxRows, cols \in 1..MaxCols :
       /\ loc' = [rows |-> rows, cols |-> cols]
       /\ \E S \in Matrices(rows, cols, TransposeValues), g \in Garbage :
            heap' = malloc(<<S>>, cols, rows, g)
  /\ ptr' = [matrix |-> 1, transpose |-> 2]
  /\ pc' = "T1"
  /\ UNCHANGED <<arith, out, exit_status, calls, heap0>>

\* transpose(matrix, transpose, rows, cols)
TransposeCall ==
  /\ pc = "T1"
  /\ heap0' = heap
  /\ heap' = transpose(heap, ptr.matrix, ptr.transpose, loc.rows, loc.cols)
  /\ calls' = Append(calls, <<"transpose", ptr.transpose>>)
  /\ pc' = "T2"
  /\ UNCHANGED <<arith, ptr, loc, out, exit_status>>

\* the result transposed again, into a new buffer of the shape of the source
TransposeBack ==
  /\ pc = "T2"
  /\ \E g \in Garbage :
       heap' = transpose(malloc(heap, loc.rows, loc.cols, g), ptr.transpose, Len(heap) + 1,
                         loc.cols, loc.rows)
  /\ ptr' = [matrix |-> ptr.matrix, transpose |-> ptr.transpose, back |-> Len(heap) + 1]
  /\ calls' = Append(calls, <<"transpose", Len(heap) + 1>>)
  /\ pc' = "T3"
  /\ UNCHANGED <<arith, loc, out, exit_status, heap0>>

InitTranspose == InitKernel("T0")

NextTranspose == TransposeArgs \/ TransposeCall \/ TransposeBack

SpecTranspose == InitTranspose /\ [][NextTranspose]_vars

\* two operands and a destination with some contents
MultiplyArgsChosen ==
  /\ pc = "M0"
  /\ \E rows \in 1..MaxRows, cols \in 1..MaxCols, cols1 \in 1..MaxInner :
       /\ loc' = [rows |-> rows, cols |-> cols, cols1 |-> cols1]
       /\ \E A \in Matrices(rows, cols1, MultiplyValues),
             B \in Striped(cols1, cols),
             D \in Destinations(rows, cols) :
            heap' = <<A, B, D>>
  /\ ptr' = [matrix1 |-> 1, matrix2 |-> 2, result |-> 3]
  /\ pc' = "M1"
  /\ UNCHANGED <<arith, out, exit_status, calls, heap0>>

\* multiply(matrix1, matrix2, result, rows, cols, cols1)
MultiplyCall ==
  /\ pc = "M1"
  /\ heap0' = heap
  /\ heap' = multiply(heap, ptr.matrix1, ptr.matrix2, ptr.result, loc.rows, loc.cols, loc.cols1)
  /\ calls' = Append(calls, <<"multiply", ptr.result>>)
  /\ pc' = "M2"
  /\ UNCHANGED <<arith, ptr, loc, out, exit_status>>

InitMultiply == InitKernel("M0")

NextMultiply == MultiplyArgsChosen \/ MultiplyCall

SpecMultiply == InitMultiply /\ [][NextMultiply]_vars

\* a square matrix
InverseArgs ==
  /\ pc = "I0"
  /\ \E n \in 1..MaxN :
       /\ loc' = [rows |-> n, cols |-> n]
       /\ \E A \in Matrices(n, n, InverseValues) : heap' = <<A>>
  /\ ptr' = [matrix |-> 1, identity_matrix |-> 0]
  /\ pc' = "I1"
  /\ UNCHANGED <<arith, out, exit_status, calls, heap0>>

\* identity_matrix = inverse(matrix, rows, cols)
InverseCall ==
  /\ pc = "I1"
  /\ heap0' = heap
  /\ heap' = inverse(heap, ptr.matrix, loc.rows, loc.cols)
  /\ ptr' = [ptr EXCEPT !.identity_matrix = Len(heap) + 1]
  /\ calls' = Append(calls, <<"inverse", Len(heap) + 1>>)
  /\ pc' = "I2"
  /\ UNCHANGED <<arith, loc, out, exit_status>>

InitInverse == InitKernel("I0")

NextInverse == InverseArgs \/ InverseCall

SpecInverse == InitInverse /\ [][NextInverse]_vars

\* a matrix A of rows x cols
ComposeArgs ==
  /\ pc = "P0"
  /\ \E rows \in 1..MaxRows, cols \in 1..MaxCols :
       /\ loc' = [rows |-> rows, cols |-> cols]
       /\ \E A \in Matrices(rows, cols, ComposeValues) : heap' = <<A>>
  /\ ptr' = [A |-> 1, At |-> 0, AtA |-> 0, inverse |-> 0, left |-> 0, product |-> 0]
  /\ heap0' = heap'
  /\ pc' = "P1"
  /\ UNCHANGED <<arith, out, exit_status, calls>>

\* At with transpose
ComposeTranspose ==
  /\ pc = "P1"
  /\ \E g \in Garbage :
       heap' = transpose(insertZeroes(malloc(heap, loc.cols, loc.rows, g), Len(heap) + 1,
                                      loc.cols, loc.rows),
                         ptr.A, Len(heap) + 1, loc.rows, loc.cols)
  /\ ptr' = [ptr EXCEPT !.At = Len(heap) + 1]
  /\ calls' = Append(calls, <<"transpose", Len(heap) + 1>>)
  /\ pc' = "P2"
  /\ UNCHANGED <<arith, loc, out, exit_status, heap0>>

\* AtA with multiply
ComposeGram ==
  /\ pc = "P2"
  /\ \E g \in Garbage :
       heap' = multiply(insertZeroes(malloc(heap, loc.cols, loc.cols, g), Len(heap) + 1,
                                     loc.cols, loc.cols),
                        ptr.At, ptr.A, Len(heap) + 1, loc.cols, loc.cols, loc.rows)
  /\ ptr' = [ptr EXCEPT !.AtA = Len(heap) + 1]
  /\ calls' = Append(calls, <<"multiply", Len(heap) + 1>>)
  /\ pc' = "P3"
  /\ UNCHANGED <<arith, loc, out, exit_status, heap0>>

\* the inverse of AtA with inverse
ComposeInverse ==
  /\ pc = "P3"
  /\ heap' = inverse(heap, ptr.AtA, loc.cols, loc.cols)
  /\ ptr' = [ptr EXCEPT !.inverse = Len(heap) + 1]
  /\ calls' = Append(calls, <<"inverse", Len(heap) + 1>>)
  /\ pc' = "P4"
  /\ UNCHANGED <<arith, loc, out, exit_status, heap0>>

\* (AtA)^-1 * At with multiply
ComposeLeft ==
  /\ pc = "P4"
  /\ \E g \in Garbage :
       heap' = multiply(insertZeroes(malloc(heap, loc.cols, loc.rows, g), Len(heap) + 1,
                                     loc.cols, loc.rows),
                        ptr.inverse, ptr.At, Len(heap) + 1, loc.cols, loc.rows, loc.cols)
  /\ ptr' = [ptr EXCEPT !.left = Len(heap) + 1]
  /\ calls' = Append(calls, <<"multiply", Len(heap) + 1>>)
  /\ pc' = "P5"
  /\ UNCHANGED <<arith, loc, out, exit_status, heap0>>

\* ((AtA)^-1 * At) * A with multiply
ComposeProduct ==
  /\ pc = "P5"
  /\ \E g \in Garbage :
       heap' = multiply(insertZeroes(malloc(heap, loc.cols, loc.cols, g), Len(heap) + 1,
                                     loc.cols, loc.cols),
                        ptr.left, ptr.A, Len(heap) + 1, loc.cols, loc.cols, loc.rows)
  /\ ptr' = [ptr EXCEPT !.product = Len(heap) + 1]
  /\ calls' = Append(calls, <<"multiply", Len(heap) + 1>>)
  /\ pc' = "P6"
  /\ UNCHANGED <<arith, loc, out, exit_status, heap0>>

InitCompose == InitKernel("P0")

NextCompose ==
  \/ ComposeArgs \/ ComposeTranspose \/ ComposeGram
  \/ ComposeInverse \/ ComposeLeft \/ ComposeProduct

SpecCompose == InitCompose /\ [][NextCompose]_vars

(***************************************************************************)
(* Notions the properties are stated with.  The numbers the program reads  *)
(* are integers, so a matrix of inputs has an exact integer determinant,   *)
(* computed here by expansion along the first row, independently of the    *)
(* program's arithmetic.                                                   *)
(***************************************************************************)
\* x == y on doubles: no NaN equals anything, the two zeros are equal
DEq(x, y) == ~IsNaN(x) /\ ~IsNaN(y) /\ (x = y \/ (IsZero(x) /\ IsZero(y)))

\* the integer held by a double that was converted from an int
IntOf(x) ==
  IF IsZero(x) THEN 0
  ELSE LET k == IF arith = "real" THEN x[3][1] ELSE BToInt(BShr(x[3][1], -x[3][2]))
       IN  IF x[2] = 1 THEN -k ELSE k

RECURSIVE IntSum(_, _, _)
IntSum(f, lo, hi) == IF lo > hi THEN 0 ELSE f[lo] + IntSum(f, lo + 1, hi)

RECURSIVE IntDet(_, _)
IntDet(M, n) ==
  IF n = 0 THEN 1
  ELSE IF n = 1 THEN M[0][0]
  ELSE IntSum([j \in 0..(n - 1) |->
                 (IF j % 2 = 0 THEN 1 ELSE -1) * M[0][j] *
                 IntDet([i \in 0..(n - 2) |->
                           [k \in 0..(n - 2) |-> M[i + 1][IF k < j THEN k ELSE k + 1]]],
                        n - 1)],
              0, n - 1)

\* the integer matrix a buffer of converted ints holds
IntMatrix(B) == [i \in DOMAIN B |-> [j \in DOMAIN B[i] |-> IntOf(B[i][j])]]

\* Mt * M for an integer matrix M of rows x cols
IntGram(M, rows, cols) ==
  [i \in 0..(cols - 1) |->
     [j \in 0..(cols - 1) |-> IntSum([k \in 0..(rows - 1) |-> M[k][i] * M[k][j]], 0, rows - 1)]]

RECURSIVE DSum(_, _, _)
DSum(f, lo, hi) == IF lo > hi THEN Zero(0) ELSE DAdd(f[lo], DSum(f, lo + 1, hi))

\* cell (i, j) of the product of A and B, inner dimension inner
Dot(A, B, i, j, inner) == DSum([k \in 0..(inner - 1) |-> DMul(A[i][k], B[k][j])], 0, inner - 1)

IsIdentity(M, n) ==
  \A i \in 0..(n - 1), j \in 0..(n - 1) : DEq(M[i][j], IF i = j THEN FromInt(1) ELSE Zero(0))

AllFinite(B) == \A i \in DOMAIN B : \A j \in DOMAIN B[i] : IsFinite(B[i][j])

NoneFinite(B) == \A i \in DOMAIN B : \A j \in DOMAIN B[i] : ~IsFinite(B[i][j])

AllZero(B) == \A i \in DOMAIN B : \A j \in DOMAIN B[i] : B[i][j] = Zero(0)

\* the lines of main in program order
PcOrder ==
  <<"L124", "L135", "L148", "L158", "L166", "L172", "L174", "L178", "L183", "L185",
    "L190", "L195", "L197", "L201", "L206", "L208", "L210", "L212", "L227", "L242",
    "L245", "L253", "L255", "L257", "exit">>

Pos(l) == CHOOSE i \in 1..Len(PcOrder) : PcOrder[i] = l

\* main has executed everything before line l
Reached(l) == Pos(pc) >= Pos(l)

\* the query file declares the attributes the training file declares
Matched == Reached("L227") /\ loc.num_of_attributes = loc.num_of_attributes_2

Mismatched == Reached("L227") /\ loc.num_of_attributes # loc.num_of_attributes_2

\* XtX of the training set read, as integers
XtX == IntGram(IntMatrix(heap[ptr.matrix_x]), loc.num_of_houses, n1)

Singular == IntDet(XtX, n1) = 0

Kinds(cs) == [i \in 1..Len(cs) |-> cs[i][1]]

SolverCalls == <<"transpose", "multiply", "inverse", "multiply", "multiply">>

(***************************************************************************)
(* Properties of main, checked under Spec (exact arithmetic) unless said   *)
(* otherwise.                                                              *)
(***************************************************************************)
\* the buffers the multiply about to be called reads, and the one it writes
MultiplyArgs ==
  CASE pc = "L185" -> <<ptr.transpose_x, ptr.matrix_x, "product_x">>
    [] pc = "L208" -> <<ptr.inverse_x, ptr.transpose_x, "result_x">>
    [] pc = "L210" -> <<ptr.result_x, ptr.vector_y, "vector_w">>
    [] pc = "L253" -> <<ptr.estimator_x, ptr.vector_w, "estimator_y">>

\* C9: at each of the four multiply calls of main the destination holds 0 in every
\* cell, is a buffer other than both operands and other than every other matrix of
\* main, and was written by no earlier call; no two calls write the same buffer.
C9_MultiplyDestinationsFreshAndZero ==
  /\ pc \in {"L185", "L208", "L210", "L253"} =>
       LET a == MultiplyArgs
           d == ptr[a[3]]
       IN  /\ d # 0
           /\ AllZero(heap[d])
           /\ d # a[1] /\ d # a[2]
           /\ \A f \in DOMAIN ptr : f # a[3] => ptr[f] # d
           /\ \A c \in 1..Len(calls) : calls[c][2] # d
  /\ \A c \in 1..Len(calls), e \in 1..Len(calls) : c # e => calls[c][2] # calls[e][2]

\* C9 witness: the prediction multiply is about to run on two query rows, after
\* the three multiplies of the solver
C9_Witness ==
  /\ pc = "L253"
  /\ Kinds(calls) = SolverCalls
  /\ loc.num_of_houses_2 = 2
  /\ loc.num_of_attributes = 1

\* C2, as claimed: on a mismatch the program prints "error" and ends having
\* executed none of the solver steps (no transpose, multiply or inverse call)
C2_MismatchSkipsSolver ==
  (Mismatched /\ pc = "exit") => (out = <<"error">> /\ calls = <<>>)

\* C2, as the program behaves: the attribute counts are compared after training,
\* so on a mismatch all five solver calls have been made; the program then prints
\* "error" alone and returns 0 without allocating the query matrices, reading a
\* query row, computing or printing a prediction.
C2_MismatchErrorAfterTraining ==
  /\ Mismatched =>
       /\ pc \in {"L227", "exit"}
       /\ Kinds(calls) = SolverCalls
       /\ ptr.estimator_x = 0 /\ ptr.estimator_y = 0
       /\ Len(heap) = 8
  /\ (Mismatched /\ pc = "exit") => (out = <<"error">> /\ exit_status = 0)
  /\ (Mismatched /\ pc = "L227") => (out = <<>> /\ exit_status = Running)

\* C2 witness: a run that ended on a mismatch
C2_Witness ==
  /\ Mismatched /\ pc = "exit"
  /\ out = <<"error">>
  /\ Kinds(calls) = SolverCalls
  /\ loc.num_of_houses = 2

\* the integer k is nearest to the finite double x in magnitude, even on a tie
NearestEven(x, k) ==
  IF IsZero(x) THEN k = 0
  ELSE LET n == x[3][1]
           d == x[3][2]
       IN  /\ 2 * Abs(n - k * d) <= d
           /\ 2 * Abs(n - k * d) = d => k % 2 = 0

\* the integer part of the magnitude of the finite double x
Truncated(x) == IF IsZero(x) THEN 0 ELSE x[3][1] \div x[3][2]

\* C4, as claimed: one line per query row, line i the i-th prediction with its
\* fraction discarded (1.5 prints 1), exit status 0
C4_PrintsTruncated ==
  (Matched /\ Reached("L257")) =>
    /\ Len(out) = loc.num_of_houses_2
    /\ \A i \in 1..Len(out) :
         LET x == heap[ptr.estimator_y][i - 1][0]
         IN  IsFinite(x) => out[i] = << <<"num", x[2], Truncated(x)>> >>
    /\ pc = "exit" => exit_status = 0

\* C4, as the program behaves: one line per query row in query order, line i the
\* i-th prediction rounded to the nearest integer, ties to the even one (1.5
\* prints 2), with the sign of the prediction (-0.5 prints -0) and no decimal
\* point; a prediction that is not finite prints as inf or nan; exit status 0.
C4_PrintsRoundedHalfEven ==
  /\ (Matched /\ Reached("L257")) =>
       /\ Len(out) = loc.num_of_houses_2
       /\ \A i \in 1..Len(out) :
            LET x == heap[ptr.estimator_y][i - 1][0]
                l == out[i]
            IN  /\ Len(l) = 1
                /\ IsNaN(x) => l[1] = <<"nan">>
                /\ IsInf(x) => l[1] = <<"inf", x[2]>>
                /\ IsFinite(x) =>
                     (Len(l[1]) = 3 /\ l[1][1] = "num" /\ l[1][2] = x[2] /\ NearestEven(x, l[1][3]))
       /\ pc = "exit" => exit_status = 0
  /\ (Matched /\ ~Reached("L257")) => (out = <<>> /\ exit_status = Running)

\* C4 witness: a prediction of 1.5 was printed as 2 and the program returned
C4_Witness ==
  /\ Matched /\ pc = "exit"
  /\ \E i \in 1..Len(out) :
       /\ heap[ptr.estimator_y][i - 1][0] = Fin(0, <<3, 2>>)
       /\ out[i] = << <<"num", 0, 2>> >>

\* Xt * y of the training set read, as integers
Xty ==
  LET X == IntMatrix(heap[ptr.matrix_x])
      y == IntMatrix(heap[ptr.vector_y])
  IN  [i \in 0..(n1 - 1) |->
         IntSum([k \in 0..(loc.num_of_houses - 1) |-> X[k][i] * y[k][0]],
                0, loc.num_of_houses - 1)]

\* w solves (XtX) w = Xt y
SolvesNormalEquations(w) ==
  \A i \in 0..(n1 - 1) :
    DEq(DSum([j \in 0..(n1 - 1) |-> DMul(FromInt(XtX[i][j]), w[j][0])], 0, n1 - 1),
        FromInt(Xty[i]))

\* the training set of the scenario: 1 attribute, rows (1, 3) and (2, 5)
ScenarioLine ==
  /\ loc.num_of_attributes = 1 /\ loc.num_of_houses = 2
  /\ IntMatrix(heap[ptr.matrix_x]) = [i \in 0..1 |-> [j \in 0..1 |-> IF j = 0 THEN 1 ELSE i + 1]]
  /\ IntMatrix(heap[ptr.vector_y]) = [i \in 0..1 |-> [j \in 0..0 |-> 2 * i + 3]]

\* C5: when XtX of the training set is non-singular, inverse divides by no zero
\* pivot (a division by 0 leaves inf or NaN in the pivot row, and every cell stays
\* finite), w ends as the exact solution of (XtX) w = Xt y with one coefficient per
\* column of X, and the value computed for query row q is (1, q) . w.  Training rows
\* (1, 3), (2, 5) give w = (1, 2) and 9 for the query row (4); one row with no
\* attribute gives a w of length 1.
C5_SolverSolvesNormalEquations ==
  (Reached("L166") /\ ~Singular) =>
    /\ Reached("L201") =>
         (AllFinite(heap[ptr.inverse_x]) /\ AllFinite(heap[ptr.product_x]))
    /\ Reached("L212") =>
         LET w == heap[ptr.vector_w]
         IN  /\ DOMAIN w = 0..loc.num_of_attributes
             /\ SolvesNormalEquations(w)
             /\ ScenarioLine => (w[0][0] = FromInt(1) /\ w[1][0] = FromInt(2))
             /\ (loc.num_of_attributes = 0 /\ loc.num_of_houses = 1) =>
                  (DOMAIN w = {0} /\ w[0][0] = heap[ptr.vector_y][0][0])
    /\ (Matched /\ Reached("L255")) =>
         \A i \in 0..(loc.num_of_houses_2 - 1) :
           LET q == heap[ptr.estimator_x]
               v == heap[ptr.estimator_y][i][0]
           IN  /\ q[i][0] = FromInt(1)
               /\ DEq(v, Dot(q, heap[ptr.vector_w], i, 0, n1))
               /\ (ScenarioLine /\ q[i][1] = FromInt(4)) => v = FromInt(9)

\* C5 witness: the scenario ran to the end and printed 9 for the query row (4)
C5_Witness ==
  /\ Matched /\ pc = "exit"
  /\ ScenarioLine
  /\ ~Singular
  /\ \E i \in 1..Len(out) :
       /\ heap[ptr.estimator_x][i - 1][1] = FromInt(4)
       /\ out[i] = << <<"num", 0, 9>> >>

\* C3, checked under SpecIeee (binary64): when XtX of the training set is singular
\* every cell of the matrix inverse returns, every coefficient of w and every
\* printed prediction is non-finite
C3_SingularNeverFinite ==
  (Reached("L166") /\ Singular) =>
    /\ Reached("L201") => NoneFinite(heap[ptr.inverse_x])
    /\ Reached("L212") => NoneFinite(heap[ptr.vector_w])
    /\ (Matched /\ Reached("L257")) => \A i \in 1..Len(out) : out[i][1][1] # "num"

\* C3: the last part alone, a finite prediction printed for a singular XtX
C3_FinitePrinted ==
  /\ Reached("L166") /\ Singular
  /\ Matched /\ pc = "exit"
  /\ \E i \in 1..Len(out) : out[i][1][1] = "num"

(***************************************************************************)
(* Properties of transpose, multiply and inverse on their own.             *)
(***************************************************************************)
\* C8: after transpose(S, D, r, c), D[i][j] = S[j][i] for all i < c and j < r
\* whatever D held, and S is unchanged; the result transposed again into an
\* r x c buffer equals S.  Checked under SpecTranspose.
C8_TransposeAndInvolution ==
  /\ pc \in {"T2", "T3"} =>
       /\ \A i \in 0..(loc.cols - 1), j \in 0..(loc.rows - 1) :
            heap[ptr.transpose][i][j] = heap0[ptr.matrix][j][i]
       /\ DOMAIN heap[ptr.transpose] = 0..(loc.cols - 1)
       /\ heap[ptr.matrix] = heap0[ptr.matrix]
  /\ pc = "T3" => heap[ptr.back] = heap0[ptr.matrix]

\* C8 witness: a 2 x 1 source transposed over a destination holding 1s, and back
C8_Witness ==
  /\ pc = "T3"
  /\ loc.rows = 2 /\ loc.cols = 1
  /\ heap0[ptr.matrix] = [i \in 0..1 |-> [j \in 0..0 |-> FromInt(2 * i)]]
  /\ heap0[ptr.transpose][0][1] = FromInt(1)
  /\ heap[ptr.back] = heap0[ptr.matrix]

\* C6: after multiply(A, B, D, rows, cols, inner) each D[i][j] is its value before
\* the call plus the sum over k < inner of A[i][k] * B[k][j], and A and B are
\* unchanged; so a destination of zeros ends as the product A x B, and a cell that
\* held a non-zero value ends different from the product's.  Checked under
\* SpecMultiply.
C6_MultiplyAccumulates ==
  pc = "M2" =>
    LET A  == heap0[ptr.matrix1]
        B  == heap0[ptr.matrix2]
        D0 == heap0[ptr.result]
        D  == heap[ptr.result]
    IN  /\ heap[ptr.matrix1] = A
        /\ heap[ptr.matrix2] = B
        /\ DOMAIN D = 0..(loc.rows - 1)
        /\ \A i \in 0..(loc.rows - 1) :
             /\ DOMAIN D[i] = 0..(loc.cols - 1)
             /\ \A j \in 0..(loc.cols - 1) :
                  LET sum == Dot(A, B, i, j, loc.cols1)
                  IN  /\ DEq(D[i][j], DAdd(D0[i][j], sum))
                      /\ IsZero(D0[i][j]) => DEq(D[i][j], sum)
                      /\ ~IsZero(D0[i][j]) => ~DEq(D[i][j], sum)

\* C6 witness: a 2 x 2 by 2 x 2 product accumulated into a destination that held
\* non-zero values
C6_Witness ==
  /\ pc = "M2"
  /\ loc.rows = 2 /\ loc.cols = 2 /\ loc.cols1 = 2
  /\ heap0[ptr.result][0][1] = FromInt(-1)
  /\ heap[ptr.result][0][1] # heap0[ptr.result][0][1]

\* the matrix whose inverse was asked for, as integers
Original == IntMatrix(heap0[ptr.matrix])

\* C1, checked under SpecInverse: for every non-singular A the matrix inverse
\* returns, multiplied by the original A, is the identity
C1_InverseTimesOriginalIsIdentity ==
  (pc = "I2" /\ IntDet(Original, loc.rows) # 0) =>
    \A i \in 0..(loc.rows - 1), j \in 0..(loc.rows - 1) :
      DEq(Dot(heap[ptr.identity_matrix], heap0[ptr.matrix], i, j, loc.rows),
          IF i = j THEN FromInt(1) ELSE Zero(0))

\* C1: a non-singular matrix with A[0][0] = 0, for which inverse returned a matrix
\* without a finite cell
C1_ZeroPivotNotInverted ==
  /\ pc = "I2"
  /\ IntDet(Original, loc.rows) # 0
  /\ Original[0][0] = 0
  /\ NoneFinite(heap[ptr.identity_matrix])

\* C10, checked under SpecInverse: for every non-singular A, when inverse returns
\* the caller's matrix holds the identity and the returned matrix is another buffer
C10_InputEndsAsIdentity ==
  (pc = "I2" /\ IntDet(Original, loc.rows) # 0) =>
    /\ IsIdentity(heap[ptr.matrix], loc.rows)
    /\ ptr.identity_matrix # ptr.matrix

\* C10: the non-singular matrix with rows (0, 1) and (1, 0) was left holding
\* something other than the identity
C10_InputNotIdentity ==
  /\ pc = "I2"
  /\ Original = [i \in 0..1 |-> [j \in 0..1 |-> IF i = j THEN 0 ELSE 1]]
  /\ ~IsIdentity(heap[ptr.matrix], loc.rows)
  /\ ptr.identity_matrix # ptr.matrix

\* A transposed, as integers
IntTransposed(M, rows, cols) == [i \in 0..(cols - 1) |-> [j \in 0..(rows - 1) |-> M[j][i]]]

\* the product (AtA)^-1 At A the calls computed is the identity
ComposedIsIdentity == IsIdentity(heap[ptr.product], loc.cols)

\* C7, as claimed: whenever A At is invertible, (AtA)^-1 At A computed with
\* transpose, multiply, inverse and multiply is the identity
C7_IdentityWhenAAtInvertible ==
  (pc = "P6" /\ IntDet(IntGram(IntTransposed(IntMatrix(heap0[1]), loc.rows, loc.cols),
                               loc.cols, loc.rows), loc.rows) # 0)
    => ComposedIsIdentity

\* C7, as the program behaves: whenever At A is invertible (A has full column
\* rank, so no more columns than rows), (AtA)^-1 At A computed with transpose,
\* multiply, inverse and multiply is the identity.  Checked under SpecCompose.
C7_IdentityWhenAtAInvertible ==
  (pc = "P6" /\ IntDet(IntGram(IntMatrix(heap0[1]), loc.rows, loc.cols), loc.cols) # 0)
    => ComposedIsIdentity

\* C7 witness: the product computed for a 2 x 2 matrix A with At A invertible and
\* not diagonal
C7_Witness ==
  /\ pc = "P6"
  /\ loc.rows = 2 /\ loc.cols = 2
  /\ IntMatrix(heap0[1]) = [i \in 0..1 |-> [j \in 0..1 |-> IF i = 0 THEN j + 1 ELSE j]]
  /\ ComposedIsIdentity

====
